---- MODULE Spec2Model ----
(***************************************************************************)
(* SharkMCP: the capture-session registry (activeSessions), the start and  *)
(* stop tool handlers, the exit/error observers of the capture process and *)
(* the configuration override resolution.                                  *)
(*                                                                         *)
(* The server runs on one event loop: a handler runs without interruption  *)
(* from one `await` to the next, so every action below is the code between *)
(* two awaits of one handler invocation (or one event callback).           *)
(***************************************************************************)
EXTENDS Integers, Sequences, FiniteSets, Bags, TLC

(***************************************************************************)
(* Bounds of the model.                                                    *)
(***************************************************************************)
MaxReq == 3

(***************************************************************************)
(* JavaScript values.  undefined of a string slot and of a number slot are *)
(* kept apart because the model's values are typed; null of an exit code   *)
(* (process ended by a signal) is NullCode.                                *)
(***************************************************************************)
Undefined == "undefined"
UndefinedNum == -1
NullCode == -2
NoProcess == 0

Field(o, f, d) == IF f \in DOMAIN o THEN o[f] ELSE d

\* if (x) for a string slot and for a number slot
TruthyStr(v) == v # Undefined /\ v # ""
TruthyNum(v) == v # UndefinedNum /\ v # 0

(***************************************************************************)
(* Configuration override resolution.                                      *)
(***************************************************************************)
\* start-capture-session: the four `if (savedConfig.x) x = savedConfig.x`
StartParams(args, savedConfig) ==
  [interface     |-> IF TruthyStr(Field(savedConfig, "interface", Undefined))
                     THEN savedConfig.interface ELSE args.interface,
   captureFilter |-> IF TruthyStr(Field(savedConfig, "captureFilter", Undefined))
                     THEN savedConfig.captureFilter
                     ELSE args.captureFilter,
   timeout       |-> IF TruthyNum(Field(savedConfig, "timeout", UndefinedNum))
                     THEN savedConfig.timeout ELSE args.timeout,
   maxPackets    |-> IF TruthyNum(Field(savedConfig, "maxPackets", UndefinedNum))
                     THEN savedConfig.maxPackets ELSE args.maxPackets]

\* stop-capture-session: the three `if (savedConfig.x) x = savedConfig.x`
StopParams(args, savedConfig) ==
  [displayFilter |-> IF TruthyStr(Field(savedConfig, "displayFilter", Undefined))
                     THEN savedConfig.displayFilter
                     ELSE args.displayFilter,
   outputFormat  |-> IF TruthyStr(Field(savedConfig, "outputFormat", Undefined))
                     THEN savedConfig.outputFormat ELSE args.outputFormat,
   customFields  |-> IF TruthyStr(Field(savedConfig, "customFields", Undefined))
                     THEN savedConfig.customFields
                     ELSE args.customFields]

\* a resolution that takes the three fields from the configuration alone
AnalyzeParamsFromConfig(args, savedConfig) ==
  [displayFilter |-> Field(savedConfig, "displayFilter", Undefined),
   outputFormat  |-> Field(savedConfig, "outputFormat", Undefined),
   customFields  |-> Field(savedConfig, "customFields", Undefined)]

\* analyze-pcap-file: the same three overrides
AnalyzeParams(args, savedConfig) ==
  [displayFilter |-> IF TruthyStr(Field(savedConfig, "displayFilter", Undefined))
                     THEN savedConfig.displayFilter
                     ELSE args.displayFilter,
   outputFormat  |-> IF TruthyStr(Field(savedConfig, "outputFormat", Undefined))
                     THEN savedConfig.outputFormat ELSE args.outputFormat,
   customFields  |-> IF TruthyStr(Field(savedConfig, "customFields", Undefined))
                     THEN savedConfig.customFields
                     ELSE args.customFields]

\* the record a handler works with when no configName is given
NoConfig == [name |-> Undefined]

(***************************************************************************)
(* The configuration file (sharkmcp-configs.json).                         *)
(***************************************************************************)
NoConfigs == [n \in {} |-> [name |-> Undefined]]

NoFile == [exists |-> FALSE, configs |-> NoConfigs]

DefaultConfigFile == [exists |-> TRUE, configs |-> NoConfigs]

\* loadConfigFile: the document read; the default one when the read fails
LoadConfigFile(file) == IF file.exists THEN file ELSE DefaultConfigFile

(* configs is a plain object (the result of JSON.parse, or the literal {}): *)
(* reading configs[name] for a name that is not an own key goes up to      *)
(* Object.prototype, which has "constructor" (a function), "__proto__"     *)
(* (the prototype object itself) and the like.  Such a value is truthy and *)
(* has none of the configuration fields.                                   *)
ObjectPrototypeKeys == {"constructor", "__proto__"}

Inherited == [inherited |-> TRUE]

\* loadFilterConfig: configFile.configs[name] || null (null is NoConfig)
LoadFilterConfig(file, name) ==
  IF name \in DOMAIN LoadConfigFile(file).configs
  THEN LoadConfigFile(file).configs[name]
  ELSE IF name \in ObjectPrototypeKeys THEN Inherited
  ELSE NoConfig

IsNull(savedConfig) == savedConfig = NoConfig

(***************************************************************************)
(* Session ids and temp files.                                             *)
(***************************************************************************)
GeneratedIds == <<"capture_1", "capture_2", "capture_3", "capture_4",
                  "capture_5", "capture_6", "capture_7", "capture_8">>

\* const sessionId = sessionName || `capture_${Date.now()}_${random}`
SessionIdOf(sessionName, fresh) ==
  IF TruthyStr(sessionName) THEN sessionName ELSE GeneratedIds[fresh]

\* const tempFile = `/tmp/shark_${sessionId}.pcap`
TempFileOf(sessionId) == <<"/tmp/shark_", sessionId, ".pcap">>

(***************************************************************************)
(* The Map activeSessions: a function from the registered ids to the       *)
(* session objects (a session object is named by its index in `sessions`). *)
(***************************************************************************)
MapHas(map, key) == key \in DOMAIN map

\* a lookup that falls back to some entry when the key is missing
MapGetFallback(map, key) ==
  IF key \in DOMAIN map THEN map[key]
  ELSE IF DOMAIN map # {} THEN map[CHOOSE k \in DOMAIN map : TRUE]
  ELSE 0

MapGet(map, key) == IF key \in DOMAIN map THEN map[key] ELSE 0

\* a set that drops every other entry
MapSetAlone(map, key, val) == [k \in {key} |-> val]

MapSet(map, key, val) ==
  [k \in DOMAIN map \cup {key} |-> IF k = key THEN val ELSE map[k]]

\* a delete that removes nothing
MapDeleteNothing(map, key) == map

MapDelete(map, key) == [k \in DOMAIN map \ {key} |-> map[k]]

(***************************************************************************)
(* Inputs.  The tool schemas have filled in the defaults (interface lo0,   *)
(* timeout 60, maxPackets 100000, outputFormat text); an argument that was *)
(* not given is undefined.                                                 *)
(***************************************************************************)
StartArgSet ==
  { [sessionName |-> "a", configName |-> Undefined, interface |-> "lo0",
     captureFilter |-> Undefined, timeout |-> 60, maxPackets |-> 100000],
    [sessionName |-> "b", configName |-> "c1", interface |-> "eth0",
     captureFilter |-> "port 443", timeout |-> 5, maxPackets |-> 10],
    [sessionName |-> Undefined, configName |-> Undefined, interface |-> "lo0",
     captureFilter |-> Undefined, timeout |-> 60, maxPackets |-> 100000] }

\* a start that names a configuration by a property of Object.prototype
StartArgSetInherited ==
  { [sessionName |-> "a", configName |-> "constructor", interface |-> "lo0",
     captureFilter |-> Undefined, timeout |-> 60, maxPackets |-> 100000] }

\* a stop that names a configuration by a property of Object.prototype
StopArgSetInherited ==
  { [sessionId |-> "a", configName |-> "constructor",
     displayFilter |-> Undefined, outputFormat |-> "text",
     customFields |-> Undefined] }

StopArgSet ==
  { [sessionId |-> "a", configName |-> Undefined, displayFilter |-> Undefined,
     outputFormat |-> "text", customFields |-> Undefined],
    [sessionId |-> "a", configName |-> "c1", displayFilter |-> "http",
     outputFormat |-> "fields", customFields |-> "ip.src"],
    [sessionId |-> "b", configName |-> Undefined, displayFilter |-> Undefined,
     outputFormat |-> "text", customFields |-> Undefined] }

\* a stored document with one configuration
StoredFile ==
  [exists |-> TRUE,
   configs |-> ("c1" :> [name |-> "c1", interface |-> "en0", timeout |-> 30,
                         displayFilter |-> "tcp", outputFormat |-> "json"])]

ExitCodes == {0, 1, NullCode}
SpawnOutcomes == {"ok", "fail", "throw"}
KillOutcomes == {"sent", "esrch", "eperm"}

(***************************************************************************)
(* State.                                                                  *)
(*   activeSessions  the registry Map: session id -> session object        *)
(*   sessions        the CaptureSession objects ever created; object n was *)
(*                   created with process n (its field process is n or     *)
(*                   NoProcess once an observer has cleared it)            *)
(*   procs           the ChildProcess objects: the id captured by their    *)
(*                   observers, whether the OS handle is still there,      *)
(*                   .killed, whether tshark has created its -w file and   *)
(*                   whether 'error' has been emitted                      *)
(*   files           the temp files on disk: path -> process that wrote it *)
(*   configFile      the configuration document on disk                    *)
(*   reqs            the tool invocations in flight: a bag of records, one *)
(*                   per pending handler call, with its position (the      *)
(*                   await it is suspended at) and its local variables     *)
(*   nreq            the number of tool invocations so far                 *)
(*   last            the tool invocation that returned last, its result    *)
(*   resolve         inputs and result of one override resolution          *)
(*   trim            an output, its format and the results of trimming it  *)
(***************************************************************************)
VARIABLES activeSessions, sessions, procs, files, configFile, reqs, nreq,
          last, resolve, trim

vars == <<activeSessions, sessions, procs, files, configFile, reqs, nreq,
          last, resolve, trim>>

\* new Date(): the instants are not told apart (no decision of the code
\* depends on one); a field holds Now once it has been set
Now == 1

NoResolve == [handler |-> "none"]

NoTrim == [outputFormat |-> Undefined]

NoParams == [outputFormat |-> Undefined]

NoLast ==
  [kind |-> "none", result |-> "none", args |-> [sessionId |-> Undefined],
   session |-> 0, removedAt |-> 0]

InitSessions ==
  /\ activeSessions = [k \in {} |-> 0]
  /\ sessions = <<>>
  /\ procs = <<>>
  /\ files = [f \in {} |-> 0]
  /\ reqs = EmptyBag
  /\ nreq = 0
  /\ last = NoLast

Init ==
  /\ InitSessions
  /\ configFile \in {NoFile, StoredFile}
  /\ resolve = NoResolve
  /\ trim = NoTrim

InFlight(kind, pc) ==
  {req \in BagToSet(reqs) : req.kind = kind /\ req.pc = pc}

\* the results returned with isError: true
IsError(result) ==
  result \in {"Error", "Duplicate", "ConfigNotFound", "NotFound", "NoResults",
              "Rejected"}

\* the invocation with the local variables req returns result
Returned(req, result) ==
  [kind |-> req.kind, result |-> result, args |-> req.args,
   session |-> req.session, removedAt |-> req.removedAt]

Return(req, result) ==
  /\ reqs' = reqs (-) SetToBag({req})
  /\ last' = Returned(req, result)

\* the invocation with the local variables req is suspended again, as next
Suspend(req, next) == reqs' = (reqs (-) SetToBag({req})) (+) SetToBag({next})

(***************************************************************************)
(* The observers registered on the capture process.  Both find the session *)
(* through the id they captured, in the registry as it is when they run.   *)
(***************************************************************************)
\* an exit observer that records a missing code as 1
ExitObserverDefaultsCode(map, sess, sessionId, code, now) ==
  IF MapHas(map, sessionId)
  THEN [sess EXCEPT ![MapGet(map, sessionId)] =
          [@ EXCEPT !.process = NoProcess,
                    !.status = IF code = 0 THEN "completed" ELSE "error",
                    !.endTime = now,
                    !.exitCode = IF code # NullCode THEN code ELSE 1]]
  ELSE sess

\* an exit observer for which an exit without a code is a completion
ExitObserverNullCompletes(map, sess, sessionId, code, now) ==
  IF MapHas(map, sessionId)
  THEN [sess EXCEPT ![MapGet(map, sessionId)] =
          [@ EXCEPT !.process = NoProcess,
                    !.status = IF code \in {0, NullCode} THEN "completed"
                               ELSE "error",
                    !.endTime = now,
                    !.exitCode = IF code # NullCode THEN code ELSE @]]
  ELSE sess

\* an exit observer that leaves the process field as it is
ExitObserverKeepsHandle(map, sess, sessionId, code, now) ==
  IF MapHas(map, sessionId)
  THEN [sess EXCEPT ![MapGet(map, sessionId)] =
          [@ EXCEPT !.status = IF code = 0 THEN "completed" ELSE "error",
                    !.endTime = now,
                    !.exitCode = IF code # NullCode THEN code ELSE @]]
  ELSE sess

\* an exit observer for which every exit is a failure
ExitObserverAlwaysError(map, sess, sessionId, code, now) ==
  IF MapHas(map, sessionId)
  THEN [sess EXCEPT ![MapGet(map, sessionId)] =
          [@ EXCEPT !.process = NoProcess,
                    !.status = "error",
                    !.endTime = now,
                    !.exitCode = IF code # NullCode THEN code ELSE @]]
  ELSE sess

\* captureProcess.on('exit', (code) => ...)
ExitObserver(map, sess, sessionId, code, now) ==
  IF MapHas(map, sessionId)
  THEN [sess EXCEPT ![MapGet(map, sessionId)] =
          [@ EXCEPT !.process = NoProcess,
                    !.status = IF code = 0 THEN "completed" ELSE "error",
                    !.endTime = now,
                    !.exitCode = IF code # NullCode THEN code ELSE @]]
  ELSE sess

\* an error observer that also clears the session's timeout
ErrorObserverClearsTimeout(map, sess, sessionId, now) ==
  IF MapHas(map, sessionId)
  THEN [sess EXCEPT ![MapGet(map, sessionId)] =
          [@ EXCEPT !.process = NoProcess,
                    !.status = "error",
                    !.endTime = now,
                    !.timeout = 0]]
  ELSE sess

\* captureProcess.on('error', (error) => ...)
ErrorObserver(map, sess, sessionId, now) ==
  IF MapHas(map, sessionId)
  THEN [sess EXCEPT ![MapGet(map, sessionId)] =
          [@ EXCEPT !.process = NoProcess,
                    !.status = "error",
                    !.endTime = now]]
  ELSE sess

\* const session: CaptureSession = { ... status: 'running' }
NewSession(sessionId, process, params, now) ==
  [id |-> sessionId, process |-> process, interface |-> params.interface,
   captureFilter |-> params.captureFilter, timeout |-> params.timeout,
   maxPackets |-> params.maxPackets, startTime |-> now,
   tempFile |-> TempFileOf(sessionId), status |-> "running",
   endTime |-> UndefinedNum, exitCode |-> UndefinedNum]

(***************************************************************************)
(* start_capture_session                                                   *)
(***************************************************************************)
NewRequest(kind, pc, args, session) ==
  [kind |-> kind, pc |-> pc, args |-> args, session |-> session,
   params |-> NoParams, removedAt |-> 0]

\* a duplicate check that only counts sessions still running
IsDuplicateRunningOnly(map, sess, sessionId) ==
  MapHas(map, sessionId) /\ sess[map[sessionId]].status = "running"

\* a start that does not check
IsDuplicateNever(map, sess, sessionId) == FALSE

\* a duplicate check that counts every session ever created under the id
IsDuplicateEverCreated(map, sess, sessionId) ==
  \E s \in 1..Len(sess) : sess[s].id = sessionId

\* if (activeSessions.has(sessionId)): the duplicate check
IsDuplicate(map, sess, sessionId) == MapHas(map, sessionId)

\* the tool is invoked; the handler runs up to `await findTshark()`
StartCall(args) ==
  /\ nreq < MaxReq
  /\ nreq' = nreq + 1
  /\ reqs' = reqs (+) SetToBag({NewRequest("start", "findTshark", args, 0)})
  /\ UNCHANGED <<activeSessions, sessions, procs, files, configFile, last,
                 resolve, trim>>

(* From the id check to the return: no await in between.  A spawn that     *)
(* fails with ENOENT/EACCES does not throw; the ChildProcess emits 'error' *)
(* on the next tick, which runs before any other handler or callback, so   *)
(* the error observer is part of this step.                                *)
StartBody(req, params, spawn) ==
  LET n == Len(sessions) + 1
      sessionId == SessionIdOf(req.args.sessionName, n)
      registered == MapSet(activeSessions, sessionId, n)
      created == Append(sessions, NewSession(sessionId, n, params, Now))
  IN  IF IsDuplicate(activeSessions, sessions, sessionId)
      THEN /\ Return(req, "Duplicate")
           /\ UNCHANGED <<activeSessions, sessions, procs>>
      ELSE IF spawn = "throw"
      THEN /\ Return(req, "Error")
           /\ UNCHANGED <<activeSessions, sessions, procs>>
      ELSE /\ activeSessions' = registered
           /\ procs' = Append(procs, [sessionId |-> sessionId,
                                      handle |-> (spawn = "ok"),
                                      killed |-> FALSE, wrote |-> FALSE,
                                      errored |-> (spawn = "fail")])
           /\ sessions' = IF spawn = "ok" THEN created
                          ELSE ErrorObserver(registered, created, sessionId,
                                             Now)
           /\ reqs' = reqs (-) SetToBag({req})
           /\ last' = Returned([req EXCEPT !.session = n], "Started")

\* findTshark() returns (found) or throws; without configName the handler
\* runs on to its return
StartFindTshark(req, found, spawn) ==
  /\ req \in InFlight("start", "findTshark")
  /\ IF ~found
     THEN /\ Return(req, "Error")
          /\ UNCHANGED <<activeSessions, sessions, procs>>
     ELSE IF TruthyStr(req.args.configName)
     THEN /\ Suspend(req, [req EXCEPT !.pc = "loadConfig"])
          /\ UNCHANGED <<activeSessions, sessions, procs, last>>
     ELSE StartBody(req, StartParams(req.args, NoConfig), spawn)
  /\ UNCHANGED <<files, configFile, nreq, resolve, trim>>

(* loadFilterConfig(configName) returns.  Reading the document, writing    *)
(* the default one when it cannot be read, and the continuation are one    *)
(* step: nothing else writes the document in this specification.           *)
StartConfigLoaded(req, spawn) ==
  /\ req \in InFlight("start", "loadConfig")
  /\ configFile' = LoadConfigFile(configFile)
  /\ LET savedConfig == LoadFilterConfig(configFile, req.args.configName)
     IN  IF IsNull(savedConfig)
         THEN /\ Return(req, "ConfigNotFound")
              /\ UNCHANGED <<activeSessions, sessions, procs>>
         ELSE StartBody(req, StartParams(req.args, savedConfig), spawn)
  /\ UNCHANGED <<files, nreq, resolve, trim>>

(***************************************************************************)
(* stop_capture_session                                                    *)
(***************************************************************************)
\* ChildProcess.kill('SIGTERM') on process p: with no OS handle left it does
\* nothing; otherwise the signal is sent (killed becomes true), or the
\* process is already gone (ESRCH, nothing), or the kill fails (EPERM) and
\* the ChildProcess emits 'error' synchronously
KillProcs(p, kill) ==
  IF procs[p].handle /\ kill = "sent"
  THEN [procs EXCEPT ![p].killed = TRUE]
  ELSE IF procs[p].handle /\ kill = "eperm"
  THEN [procs EXCEPT ![p].errored = TRUE]
  ELSE procs

KillSessions(p, kill) ==
  IF procs[p].handle /\ kill = "eperm"
  THEN ErrorObserver(activeSessions, sessions, procs[p].sessionId, Now)
  ELSE sessions

\* a decision that does not look at process.killed
ShouldTerminateAgain(session) ==
  /\ session.process # NoProcess
  /\ session.status = "running"

\* if (session.process && !session.process.killed
\*     && session.status === 'running')
ShouldTerminate(session) ==
  /\ session.process # NoProcess
  /\ ~procs[session.process].killed
  /\ session.status = "running"

(* From "Stopping capture session" to the next await of the invocation     *)
(* that is in the bag as old and has the local variables req (req.session  *)
(* is the object the lookup found): either the SIGTERM and the start of    *)
(* the 2000 ms wait, or the removal from the registry and the start of     *)
(* fs.access.                                                              *)
StopBody(pending, req, params, kill) ==
  LET session == sessions[req.session]
  IN  IF ShouldTerminate(session)
      THEN /\ procs' = KillProcs(session.process, kill)
           /\ sessions' = KillSessions(session.process, kill)
           /\ reqs' = pending (+) SetToBag({[req EXCEPT !.pc = "grace",
                                                        !.params = params]})
           /\ UNCHANGED activeSessions
      ELSE /\ activeSessions' = MapDelete(activeSessions, req.args.sessionId)
           /\ reqs' = pending (+) SetToBag({[req EXCEPT !.pc = "access",
                                               !.params = params,
                                               !.removedAt = Len(sessions)]})
           /\ UNCHANGED <<sessions, procs>>

\* the tool is invoked: the lookup, and without configName the handler runs
\* on to its first await
StopCall(args, kill) ==
  /\ nreq < MaxReq
  /\ nreq' = nreq + 1
  /\ LET req == NewRequest("stop", "loadConfig", args,
                           MapGet(activeSessions, args.sessionId))
     IN  IF req.session = 0
         THEN /\ last' = Returned(req, "NotFound")
              /\ UNCHANGED <<activeSessions, sessions, procs, reqs>>
         ELSE IF TruthyStr(args.configName)
         THEN /\ reqs' = reqs (+) SetToBag({req})
              /\ UNCHANGED <<activeSessions, sessions, procs, last>>
         ELSE /\ StopBody(reqs, req, StopParams(args, NoConfig), kill)
              /\ UNCHANGED last
  /\ UNCHANGED <<files, configFile, resolve, trim>>

\* loadFilterConfig(configName) returns (one step, as in StartConfigLoaded)
StopConfigLoaded(req, kill) ==
  /\ req \in InFlight("stop", "loadConfig")
  /\ configFile' = LoadConfigFile(configFile)
  /\ LET savedConfig == LoadFilterConfig(configFile, req.args.configName)
     IN  IF IsNull(savedConfig)
         THEN /\ Return(req, "ConfigNotFound")
              /\ UNCHANGED <<activeSessions, sessions, procs>>
         ELSE /\ StopBody(reqs (-) SetToBag({req}), req,
                          StopParams(req.args, savedConfig), kill)
              /\ UNCHANGED last
  /\ UNCHANGED <<files, nreq, resolve, trim>>

\* a stop that goes on after the wait only once the process is gone
StopGraceDoneAwaitsExit(req) ==
  /\ req \in InFlight("stop", "grace")
  /\ ~procs[req.session].handle
  /\ activeSessions' = MapDelete(activeSessions, req.args.sessionId)
  /\ Suspend(req, [req EXCEPT !.pc = "access", !.removedAt = Len(sessions)])
  /\ UNCHANGED <<sessions, procs, files, configFile, nreq, last, resolve, trim>>

\* the 2000 ms wait is over: activeSessions.delete(sessionId), fs.access starts
StopGraceDone(req) ==
  /\ req \in InFlight("stop", "grace")
  /\ activeSessions' = MapDelete(activeSessions, req.args.sessionId)
  /\ Suspend(req, [req EXCEPT !.pc = "access", !.removedAt = Len(sessions)])
  /\ UNCHANGED <<sessions, procs, files, configFile, nreq, last, resolve, trim>>

\* fs.access(session.tempFile) returns or throws; the 1000 ms wait and the
\* analysis run that follow touch nothing until the analysis reads the file
StopAccessDone(req) ==
  /\ req \in InFlight("stop", "access")
  /\ IF MapHas(files, sessions[req.session].tempFile)
     THEN Suspend(req, [req EXCEPT !.pc = "analyze"]) /\ UNCHANGED last
     ELSE Return(req, "NoResults")
  /\ UNCHANGED <<activeSessions, sessions, procs, files, configFile, nreq,
                 resolve, trim>>

\* a stop that cleans the temp file up when the analysis has failed
StopAnalyzeDoneCleansUp(req, ok) ==
  /\ req \in InFlight("stop", "analyze")
  /\ IF ok /\ MapHas(files, sessions[req.session].tempFile)
     THEN Suspend(req, [req EXCEPT !.pc = "unlink"])
          /\ UNCHANGED <<last, files>>
     ELSE /\ Return(req, "NoResults")
          /\ files' = MapDelete(files, sessions[req.session].tempFile)
  /\ UNCHANGED <<activeSessions, sessions, procs, configFile, nreq,
                 resolve, trim>>

\* analyzePcap returns the output read from the file, or throws (tshark not
\* found, file gone, tshark failed); on success fs.unlink starts
StopAnalyzeDone(req, ok) ==
  /\ req \in InFlight("stop", "analyze")
  /\ IF ok /\ MapHas(files, sessions[req.session].tempFile)
     THEN Suspend(req, [req EXCEPT !.pc = "unlink"]) /\ UNCHANGED last
     ELSE Return(req, "NoResults")
  /\ UNCHANGED <<activeSessions, sessions, procs, files, configFile, nreq,
                 resolve, trim>>

\* fs.unlink(session.tempFile) is done, or has failed (.catch only logs the
\* failure and the file stays); the result is returned
StopUnlinkDone(req, unlinked) ==
  /\ req \in InFlight("stop", "unlink")
  /\ files' = IF unlinked
              THEN MapDelete(files, sessions[req.session].tempFile)
              ELSE files
  /\ Return(req, "Completed")
  /\ UNCHANGED <<activeSessions, sessions, procs, configFile, nreq, resolve,
                 trim>>

(***************************************************************************)
(* The capture process (tshark -w tempFile).                               *)
(***************************************************************************)
\* tshark creates the file named by -w
ProcWrite(p) ==
  /\ procs[p].handle /\ ~procs[p].wrote
  /\ procs' = [procs EXCEPT ![p].wrote = TRUE]
  /\ files' = MapSet(files, TempFileOf(procs[p].sessionId), p)
  /\ UNCHANGED <<activeSessions, sessions, configFile, reqs, nreq, last,
                 resolve, trim>>

\* an exit observer that also drops the session from the registry
ProcExitRemoves(p, code) ==
  /\ procs[p].handle
  /\ procs' = [procs EXCEPT ![p].handle = FALSE]
  /\ sessions' = ExitObserver(activeSessions, sessions, procs[p].sessionId,
                              code, Now)
  /\ activeSessions' = MapDelete(activeSessions, procs[p].sessionId)
  /\ UNCHANGED <<files, configFile, reqs, nreq, last, resolve, trim>>

\* the process ends (code is null when a signal ended it): 'exit' is emitted
ProcExit(p, code) ==
  /\ procs[p].handle
  /\ procs' = [procs EXCEPT ![p].handle = FALSE]
  /\ sessions' = ExitObserver(activeSessions, sessions, procs[p].sessionId,
                              code, Now)
  /\ UNCHANGED <<activeSessions, files, configFile, reqs, nreq, last, resolve,
                 trim>>

Next ==
  \/ \E args \in StartArgSet : StartCall(args)
  \/ \E req \in BagToSet(reqs), found \in BOOLEAN, spawn \in SpawnOutcomes :
        StartFindTshark(req, found, spawn)
  \/ \E req \in BagToSet(reqs), spawn \in SpawnOutcomes :
        StartConfigLoaded(req, spawn)
  \/ \E args \in StopArgSet, kill \in KillOutcomes : StopCall(args, kill)
  \/ \E req \in BagToSet(reqs), kill \in KillOutcomes :
        StopConfigLoaded(req, kill)
  \/ \E req \in BagToSet(reqs) : StopGraceDone(req)
  \/ \E req \in BagToSet(reqs) : StopAccessDone(req)
  \/ \E req \in BagToSet(reqs), ok \in BOOLEAN : StopAnalyzeDone(req, ok)
  \/ \E req \in BagToSet(reqs), unlinked \in BOOLEAN :
        StopUnlinkDone(req, unlinked)
  \/ \E p \in 1..Len(procs) : ProcWrite(p)
  \/ \E p \in 1..Len(procs), code \in ExitCodes : ProcExit(p, code)

Spec == Init /\ [][Next]_vars

\* the same, with the starts of StartArgSetInherited among the requests
NextInherited ==
  \/ Next
  \/ \E args \in StartArgSetInherited : StartCall(args)

SpecInherited == Init /\ [][NextInherited]_vars

\* the same as Next, with the stops of StopArgSetInherited among the requests
NextStopInherited ==
  \/ Next
  \/ \E args \in StopArgSetInherited, kill \in KillOutcomes :
        StopCall(args, kill)

SpecStopInherited == Init /\ [][NextStopInherited]_vars

(***************************************************************************)
(* Notions the properties below are stated in.                             *)
(***************************************************************************)
\* the stop invocations that have executed activeSessions.delete and are
\* checking, analysing or deleting the temp file
StopsPastRemoval ==
  {req \in BagToSet(reqs) :
     req.kind = "stop" /\ req.pc \in {"access", "analyze", "unlink"}}

\* the stop invocation that returned last went past the removal
LastStopProceeded ==
  last.kind = "stop" /\ last.result \in {"Completed", "NoResults"}

\* session object s is the one registered under its id
Registered(s) == MapGet(activeSessions, sessions[s].id) = s

\* session object s is held by a stop invocation in flight
HeldByStop(s) ==
  \E req \in BagToSet(reqs) : req.kind = "stop" /\ req.session = s

\* an observer of process p runs in this step
ObserverStep(p) ==
  \/ procs[p].handle /\ ~procs'[p].handle
  \/ ~procs[p].errored /\ procs'[p].errored

(***************************************************************************)
(* C1.  No two stop requests on the same registered session both get past  *)
(* the removal: of two stops that found the same session object, at most   *)
(* one proceeds to the file check, the analysis and the deletion; the      *)
(* other must have been answered NotFound.                                 *)
(***************************************************************************)
C1_OnlyOneStopProceeds ==
  \A r1 \in StopsPastRemoval :
     /\ CopiesIn(r1, reqs) = 1
     /\ \A r2 \in StopsPastRemoval : r2 # r1 => r2.session # r1.session
     /\ LastStopProceeded => last.session # r1.session

(***************************************************************************)
(* C2.  An observer (exit or error) of a process whose own session is no   *)
(* longer the one registered under its id changes no session object, also  *)
(* when the id has been registered again by a later start.                 *)
(***************************************************************************)
C2_ObserverNoOpAfterRemoval ==
  [][\A p \in 1..Len(procs) :
        (ObserverStep(p) /\ ~Registered(p)) => sessions' = sessions]_vars

(***************************************************************************)
(* C3.  No two sessions in use have the same tempFile, a session being in  *)
(* use while it is registered or while a stop invocation still holds it    *)
(* (until that stop has read and deleted the file).                        *)
(***************************************************************************)
C3_TempFileNeverShared ==
  \A s1, s2 \in 1..Len(sessions) :
     (/\ s1 # s2
      /\ Registered(s1) \/ HeldByStop(s1)
      /\ Registered(s2) \/ HeldByStop(s2))
     => sessions[s1].tempFile # sessions[s2].tempFile

(***************************************************************************)
(* C4.  A start request that reaches the duplicate check (tshark found,    *)
(* named configuration found) with its session id in the registry returns  *)
(* the duplicate-session error whatever the status of the registered       *)
(* session; a start request whose id is registered never changes the       *)
(* registry or a session and spawns no process.                            *)
(***************************************************************************)
StartReturns(req) ==
  /\ req.kind = "start"
  /\ CopiesIn(req, reqs') < CopiesIn(req, reqs)
  /\ BagCardinality(reqs') < BagCardinality(reqs)

C4_DuplicateStartFails ==
  [][\A req \in BagToSet(reqs) :
        (/\ StartReturns(req)
         /\ MapHas(activeSessions,
                   SessionIdOf(req.args.sessionName, Len(sessions) + 1)))
        => /\ UNCHANGED <<activeSessions, sessions, procs>>
           /\ last'.result \in {"Duplicate", "Error", "ConfigNotFound"}
           /\ last'.result = "Error" => req.pc = "findTshark"
           /\ last'.result = "ConfigNotFound" =>
                 /\ req.pc = "loadConfig"
                 /\ IsNull(LoadFilterConfig(configFile, req.args.configName))
    ]_vars

C4_Witness ==
  /\ last.kind = "start" /\ last.result = "Duplicate"
  /\ MapHas(activeSessions, last.args.sessionName)
  /\ sessions[activeSessions[last.args.sessionName]].status = "completed"

(***************************************************************************)
(* C5.  A stop request that has got past lookup, configuration resolution  *)
(* and the grace wait has removed the id: from then on, and after it has   *)
(* returned with the results or with the 'no results' error, the id is not *)
(* registered, or it is registered to a session created after the removal. *)
(***************************************************************************)
Gone(sessionId, at) ==
  ~MapHas(activeSessions, sessionId) \/ activeSessions[sessionId] > at

C5_StoppedSessionRemoved ==
  /\ LastStopProceeded => Gone(last.args.sessionId, last.removedAt)
  /\ \A req \in StopsPastRemoval : Gone(req.args.sessionId, req.removedAt)

C5_Witness ==
  /\ last.kind = "stop" /\ last.result = "NoResults"
  /\ ~MapHas(activeSessions, last.args.sessionId)

(***************************************************************************)
(* C6.  A stop request for an id that is not registered returns the 'no    *)
(* active session' error at once and changes nothing: registry, sessions,  *)
(* processes (no signal) and files are as before; only a stop request for  *)
(* a registered id goes on.                                                *)
(***************************************************************************)
StopCallStep ==
  /\ nreq' = nreq + 1
  /\ \A req \in BagToSet(reqs') :
        req.kind = "start" => CopiesIn(req, reqs') = CopiesIn(req, reqs)

C6_StopUnknownId ==
  [][StopCallStep =>
        IF BagCardinality(reqs') > BagCardinality(reqs)
        THEN \A req \in BagToSet(reqs') :
                CopiesIn(req, reqs') > CopiesIn(req, reqs)
                => MapHas(activeSessions, req.args.sessionId)
        ELSE /\ last'.kind = "stop" /\ last'.result = "NotFound"
             /\ ~MapHas(activeSessions, last'.args.sessionId)
             /\ UNCHANGED <<activeSessions, sessions, procs, files, reqs>>
    ]_vars

C6_Witness ==
  /\ last.kind = "stop" /\ last.result = "NotFound"
  /\ DOMAIN activeSessions # {}
  /\ \E p \in 1..Len(procs) : procs[p].handle /\ ~procs[p].killed

(***************************************************************************)
(* C7.  The status of a registered session is terminal once it is          *)
(* completed or error: no later exit or error notification changes it.     *)
(***************************************************************************)
C7_StatusTerminal ==
  [][\A s \in 1..Len(sessions) :
        (Registered(s) /\ sessions[s].status \in {"completed", "error"})
        => sessions'[s].status = sessions[s].status]_vars

(***************************************************************************)
(* C8.  An entry leaves the registry, or is replaced, only in the step in  *)
(* which a stop request on its id executes the removal; the exit and error *)
(* observers never remove one.                                             *)
(***************************************************************************)
StopRemovesNow(sessionId) ==
  \E req \in BagToSet(reqs') :
     /\ req.kind = "stop" /\ req.pc = "access"
     /\ req.args.sessionId = sessionId
     /\ CopiesIn(req, reqs') > CopiesIn(req, reqs)

C8_OnlyStopRemoves ==
  [][\A sessionId \in DOMAIN activeSessions :
        (\/ ~MapHas(activeSessions', sessionId)
         \/ activeSessions'[sessionId] # activeSessions[sessionId])
        => StopRemovesNow(sessionId)]_vars

C8_Witness ==
  /\ last.kind = "stop" /\ last.result = "Completed"
  /\ sessions[last.session].status = "error"
  /\ sessions[last.session].exitCode = 1

(***************************************************************************)
(* C9.  Overlapping starts do not corrupt the registry.  The step in which *)
(* a start request succeeds registers, under that request's id, a session  *)
(* with that id and temp file and that request's resolved interface,       *)
(* filter, timeout and maxPackets, and leaves every other entry and its    *)
(* session as they were; and in every state each registered id maps to a   *)
(* session object with that id, whose capture parameters never change.     *)
(***************************************************************************)
ResolvedStart(args) ==
  StartParams(args, IF TruthyStr(args.configName)
                    THEN LoadFilterConfig(configFile, args.configName)
                    ELSE NoConfig)

CaptureParams(session) ==
  <<session.id, session.interface, session.captureFilter, session.timeout,
    session.maxPackets, session.tempFile>>

C9_StartsDoNotCorrupt ==
  [][/\ (last'.kind = "start" /\ last'.result = "Started"
         /\ Len(sessions') = Len(sessions) + 1)
        => LET n == Len(sessions')
               sessionId == SessionIdOf(last'.args.sessionName, n)
               params == ResolvedStart(last'.args)
           IN  /\ last'.session = n
               /\ MapGet(activeSessions', sessionId) = n
               /\ CaptureParams(sessions'[n]) =
                     <<sessionId, params.interface, params.captureFilter,
                       params.timeout, params.maxPackets,
                       TempFileOf(sessionId)>>
               /\ sessions'[n].process \in {n, NoProcess}
               /\ procs'[n].sessionId = sessionId
               /\ \A k \in DOMAIN activeSessions :
                     /\ MapGet(activeSessions', k) = activeSessions[k]
                     /\ sessions'[activeSessions[k]] = sessions[activeSessions[k]]
     /\ \A k \in DOMAIN activeSessions' :
           /\ sessions'[activeSessions'[k]].id = k
           /\ MapGet(activeSessions, k) = activeSessions'[k]
              => CaptureParams(sessions'[activeSessions'[k]]) =
                 CaptureParams(sessions[activeSessions[k]])
    ]_vars

C9_Witness ==
  /\ MapHas(activeSessions, "a") /\ MapHas(activeSessions, "b")
  /\ sessions[activeSessions["a"]].interface = "lo0"
  /\ sessions[activeSessions["b"]].interface = "en0"
  /\ sessions[activeSessions["b"]].captureFilter = "port 443"
  /\ BagCardinality(reqs) = 1

(***************************************************************************)
(* The override resolution on its own: one stored configuration "c1" with  *)
(* any subset of the fields present, each with a value its schema admits   *)
(* (z.number() admits 0, z.string() admits "", outputFormat is an enum),   *)
(* and one handler resolving its parameters against it.                    *)
(***************************************************************************)
ConfigFieldNames ==
  {"interface", "captureFilter", "timeout", "maxPackets", "displayFilter",
   "outputFormat", "customFields"}

StoredValue(f, choice) ==
  IF f \in {"timeout", "maxPackets"}
  THEN (IF choice = "falsy" THEN 0 ELSE 30)
  ELSE IF f = "outputFormat" THEN "json"
  ELSE (IF choice = "falsy" THEN "" ELSE "stored")

SavedConfigSet ==
  { [f \in {"name"} \cup {g \in ConfigFieldNames : c[g] # "absent"} |->
        IF f = "name" THEN "c1" ELSE StoredValue(f, c[f])] :
    c \in {d \in [ConfigFieldNames -> {"absent", "falsy", "value"}] :
             d["outputFormat"] # "falsy"} }

AnalyzeArgSet ==
  { [filePath |-> "/tmp/dump.pcapng", configName |-> "c1",
     displayFilter |-> "http", outputFormat |-> "fields",
     customFields |-> "ip.src"],
    [filePath |-> "/tmp/dump.pcapng", configName |-> "c1",
     displayFilter |-> Undefined, outputFormat |-> "text",
     customFields |-> Undefined],
    [filePath |-> "/tmp/dump.pcapng", configName |-> Undefined,
     displayFilter |-> "tcp", outputFormat |-> "text",
     customFields |-> Undefined] }

InitResolve ==
  /\ InitSessions
  /\ configFile \in {[exists |-> TRUE, configs |-> ("c1" :> cfg)] :
                       cfg \in SavedConfigSet}
  /\ resolve = NoResolve
  /\ trim = NoTrim

Resolved(handler, args, savedConfig, out) ==
  [handler |-> handler, args |-> args, savedConfig |-> savedConfig,
   out |-> out]

\* start-capture-session, lines 27-47
ResolveStart(args) ==
  /\ resolve = NoResolve
  /\ TruthyStr(args.configName)
  /\ LET savedConfig == LoadFilterConfig(configFile, args.configName)
     IN  /\ ~IsNull(savedConfig)
         /\ resolve' = Resolved("start", args, savedConfig,
                                StartParams(args, savedConfig))
  /\ UNCHANGED <<activeSessions, sessions, procs, files, configFile, reqs,
                 nreq, last, trim>>

\* stop-capture-session, lines 37-56
ResolveStop(args) ==
  /\ resolve = NoResolve
  /\ TruthyStr(args.configName)
  /\ LET savedConfig == LoadFilterConfig(configFile, args.configName)
     IN  /\ ~IsNull(savedConfig)
         /\ resolve' = Resolved("stop", args, savedConfig,
                                StopParams(args, savedConfig))
  /\ UNCHANGED <<activeSessions, sessions, procs, files, configFile, reqs,
                 nreq, last, trim>>

\* analyze-pcap-file, lines 25-44
ResolveAnalyze(args) ==
  /\ resolve = NoResolve
  /\ TruthyStr(args.configName)
  /\ LET savedConfig == LoadFilterConfig(configFile, args.configName)
     IN  /\ ~IsNull(savedConfig)
         /\ resolve' = Resolved("analyze", args, savedConfig,
                                AnalyzeParams(args, savedConfig))
  /\ UNCHANGED <<activeSessions, sessions, procs, files, configFile, reqs,
                 nreq, last, trim>>

NextResolve ==
  \/ \E args \in StartArgSet : ResolveStart(args)
  \/ \E args \in StopArgSet : ResolveStop(args)
  \/ \E args \in AnalyzeArgSet : ResolveAnalyze(args)

SpecResolve == InitResolve /\ [][NextResolve]_vars

(***************************************************************************)
(* C10.  With a configuration name given, every field present in the       *)
(* stored configuration is the resolved value of that field, whatever      *)
(* value it holds (0 and "" included) and whatever the caller supplied.    *)
(***************************************************************************)
C10_StoredConfigWins ==
  resolve # NoResolve =>
     \A f \in (DOMAIN resolve.savedConfig) \cap (DOMAIN resolve.out) :
        resolve.out[f] = resolve.savedConfig[f]

(***************************************************************************)
(* C11.  A field that is absent from the loaded configuration keeps the    *)
(* caller's value (or the schema's default) in the resolved parameters of  *)
(* start, stop and analyze.                                                *)
(***************************************************************************)
C11_AbsentFieldKeepsCallerValue ==
  resolve # NoResolve =>
     \A f \in (DOMAIN resolve.out) \ (DOMAIN resolve.savedConfig) :
        resolve.out[f] = resolve.args[f]

C11_Witness ==
  /\ resolve # NoResolve
  /\ resolve.handler = "analyze"
  /\ "displayFilter" \notin DOMAIN resolve.savedConfig
  /\ resolve.args.displayFilter = "http"
  /\ resolve.out.displayFilter = "http"
  /\ Field(resolve.savedConfig, "customFields", Undefined) = "stored"
  /\ resolve.out.customFields = "stored"

(***************************************************************************)
(* C12.  A start request whose configName is not a key of the stored       *)
(* document's configs returns, once the lookup of the configuration has    *)
(* come back, the configuration-not-found error; it registers no session   *)
(* and spawns no process.                                                  *)
(***************************************************************************)
Stored(name) == name \in DOMAIN LoadConfigFile(configFile).configs

C12_UnknownConfigFails ==
  [][\A req \in BagToSet(reqs) :
        (/\ StartReturns(req)
         /\ req.pc = "loadConfig"
         /\ ~Stored(req.args.configName))
        => /\ last'.result = "ConfigNotFound"
           /\ UNCHANGED <<activeSessions, sessions, procs>>
    ]_vars

(***************************************************************************)
(* C13.  Natural completion.  When the capture process of a registered     *)
(* session exits with code 0 and nothing has ended that session before,    *)
(* the session gets status completed and stays registered.  A stop on a    *)
(* session that is not running sends no signal and does not wait; when the *)
(* temp file exists the stop goes on to the analysis, and a stop whose     *)
(* analysis has succeeded returns the success result.                      *)
(***************************************************************************)
ExitStep(p) == procs[p].handle /\ ~procs'[p].handle

StopLeaves(req) ==
  /\ req.kind = "stop"
  /\ CopiesIn(req, reqs') < CopiesIn(req, reqs)

StopReturns(req) ==
  /\ StopLeaves(req)
  /\ BagCardinality(reqs') < BagCardinality(reqs)

C13_NaturalCompletion ==
  [][/\ \A p \in 1..Len(procs) :
           (/\ ExitStep(p) /\ Registered(p)
            /\ sessions[p].status = "running"
            /\ sessions[p].exitCode = UndefinedNum
            /\ sessions'[p].exitCode = 0)
           => /\ sessions'[p].status = "completed"
              /\ MapGet(activeSessions', sessions'[p].id) = p
     /\ \A req \in BagToSet(reqs') :
           (/\ req.kind = "stop" /\ req.pc = "grace"
            /\ CopiesIn(req, reqs') > CopiesIn(req, reqs))
           => sessions[req.session].status = "running"
     /\ \A req \in BagToSet(reqs) :
           /\ (/\ StopLeaves(req) /\ req.pc = "access"
               /\ MapHas(files, sessions[req.session].tempFile))
              => BagCardinality(reqs') = BagCardinality(reqs)
           /\ (StopReturns(req) /\ req.pc = "unlink")
              => last'.result = "Completed"
    ]_vars

C13_Witness ==
  /\ nreq = 2
  /\ last.kind = "stop" /\ last.result = "Completed"
  /\ sessions[last.session].status = "completed"
  /\ sessions[last.session].exitCode = 0
  /\ ~procs[last.session].killed

(***************************************************************************)
(* C14.  A start request whose spawn fails does not return the 'started    *)
(* successfully' result: in the step in which a ChildProcess is created    *)
(* without an OS process behind it (the spawn failed and 'error' is        *)
(* emitted), the start request that created it returns an error.           *)
(***************************************************************************)
C14_SpawnFailureSurfaces ==
  [][(/\ Len(procs') = Len(procs) + 1
      /\ ~procs'[Len(procs')].handle)
     => ~(last'.kind = "start" /\ last'.result = "Started")]_vars

(***************************************************************************)
(* Output strings.  A string is a sequence of pieces; a piece is the first *)
(* len characters of a text.  The text is a literal of the code (then len  *)
(* is at most its length) or "stdout", what tshark printed, which is as    *)
(* long as needed.  The empty string is the empty sequence.                *)
(***************************************************************************)
MaxTrim == 2

OutputFormats == {"json", "fields", "text"}

Literal(text) ==
  IF text = "" THEN <<>> ELSE <<[text |-> text, len |-> Len(text)]>>

Stdout(len) == IF len = 0 THEN <<>> ELSE <<[text |-> "stdout", len |-> len]>>

RECURSIVE StrLen(_)
\* output.length
StrLen(str) == IF str = <<>> THEN 0 ELSE Head(str).len + StrLen(Tail(str))

RECURSIVE Substring(_, _)
\* output.substring(0, end)
Substring(str, end) ==
  IF str = <<>> \/ end <= 0 THEN <<>>
  ELSE IF Head(str).len <= end
  THEN <<Head(str)>> \o Substring(Tail(str), end - Head(str).len)
  ELSE <<[Head(str) EXCEPT !.len = end]>>

\* const maxChars = outputFormat === 'json' ? 500000 : ... : 720000
MaxChars(outputFormat) ==
  IF outputFormat = "json" THEN 500000
  ELSE IF outputFormat = "fields" THEN 800000
  ELSE 720000

\* a cut at the ceiling itself
TrimPointAtCeiling(outputFormat) == MaxChars(outputFormat)

\* const trimPoint = maxChars - 500
TrimPoint(outputFormat) == MaxChars(outputFormat) - 500

\* const formatInfo = outputFormat !== 'text' ? ` (${outputFormat} format)` : ''
FormatInfo(outputFormat) ==
  IF outputFormat # "text"
  THEN Literal(" (") \o Literal(outputFormat) \o Literal(" format)")
  ELSE <<>>

\* a truncation that appends nothing
TruncationMarkerSilent(outputFormat) == <<>>

\* `\n\n... [Output truncated due to size${formatInfo}] ...`
TruncationMarker(outputFormat) ==
  Literal("\n\n... [Output truncated due to size")
  \o FormatInfo(outputFormat) \o Literal("] ...")

\* a trim that also cuts an output of exactly maxChars characters
TrimOutputStrict(output, outputFormat) ==
  IF StrLen(output) >= MaxChars(outputFormat)
  THEN Substring(output, TrimPoint(outputFormat))
       \o TruncationMarker(outputFormat)
  ELSE output

\* a trim that drops the last 500 characters of the output
TrimOutputDropTail(output, outputFormat) ==
  IF StrLen(output) > MaxChars(outputFormat)
  THEN Substring(output, StrLen(output) - 500)
       \o TruncationMarker(outputFormat)
  ELSE output

\* trimOutput
TrimOutput(output, outputFormat) ==
  IF StrLen(output) > MaxChars(outputFormat)
  THEN Substring(output, TrimPoint(outputFormat))
       \o TruncationMarker(outputFormat)
  ELSE output

(* JSON.parse(stdout) and JSON.stringify(parsed, null, 2): the JSON texts   *)
(* tshark may print here, each with its two-space indented form.  Any      *)
(* other string, the empty one included, does not parse.                   *)
JsonPretty ==
  "[]" :> "[]"
  @@ "[{\"a\":1}]" :> "[\n  {\n    \"a\": 1\n  }\n]"
  @@ "[\n  {\n    \"a\": 1\n  }\n]" :> "[\n  {\n    \"a\": 1\n  }\n]"

\* JSON.parse(stdout) does not throw
ParsesAsJson(stdout) ==
  /\ Len(stdout) = 1
  /\ stdout[1].text \in DOMAIN JsonPretty
  /\ stdout[1].len = Len(stdout[1].text)

\* a processing for which output that is not JSON is no output
ProcessTsharkOutputStrict(stdout, outputFormat) ==
  IF outputFormat = "json"
  THEN (IF ParsesAsJson(stdout) THEN Literal(JsonPretty[stdout[1].text])
        ELSE <<>>)
  ELSE stdout

\* processTsharkOutput
ProcessTsharkOutput(stdout, outputFormat) ==
  IF outputFormat = "json"
  THEN (IF ParsesAsJson(stdout) THEN Literal(JsonPretty[stdout[1].text])
        ELSE stdout)
  ELSE stdout

\* what tshark prints for an analysis run that succeeds
StdoutSet == {<<>>, Literal("[{\"a\":1}]"), Stdout(40)}

(***************************************************************************)
(* trimOutput on its own: an output of a length at, around or far from     *)
(* each of the ceilings, in each format, trimmed and trimmed again.        *)
(***************************************************************************)
OutputLengths ==
  {0, 1} \cup
  UNION {{MaxChars(f) - 501, MaxChars(f) - 500, MaxChars(f) - 499,
          MaxChars(f) - 1, MaxChars(f), MaxChars(f) + 1, MaxChars(f) + 500,
          2 * MaxChars(f)} : f \in OutputFormats}

InitTrim ==
  /\ InitSessions
  /\ configFile = NoFile
  /\ resolve = NoResolve
  /\ trim \in {[outputFormat |-> f, output |-> Stdout(len), results |-> <<>>] :
                 f \in OutputFormats, len \in OutputLengths}

\* const trimmedOutput = trimOutput(output, outputFormat), then on its result
TrimStep ==
  /\ Len(trim.results) < MaxTrim
  /\ trim' = [trim EXCEPT !.results =
                 Append(@, TrimOutput(IF @ = <<>> THEN trim.output
                                      ELSE @[Len(@)], trim.outputFormat))]
  /\ UNCHANGED <<activeSessions, sessions, procs, files, configFile, reqs,
                 nreq, last, resolve>>

NextTrim == TrimStep

SpecTrim == InitTrim /\ [][NextTrim]_vars

\* the ceilings as the specification gives them
Ceiling(outputFormat) ==
  CASE outputFormat = "json" -> 500000
    [] outputFormat = "fields" -> 800000
    [] outputFormat = "text" -> 720000

(***************************************************************************)
(* C15.  An output whose length is at or under the ceiling of its format   *)
(* (json 500000, fields 800000, text 720000) is returned unchanged.        *)
(***************************************************************************)
C15_UnderCeilingUnchanged ==
  (trim # NoTrim /\ Len(trim.results) >= 1
   /\ StrLen(trim.output) <= Ceiling(trim.outputFormat))
  => trim.results[1] = trim.output

C15_Witness ==
  /\ trim # NoTrim /\ Len(trim.results) >= 1
  /\ trim.outputFormat = "fields"
  /\ StrLen(trim.output) = 800000
  /\ trim.results[1] = trim.output

(***************************************************************************)
(* C16.  trimOutput is idempotent for a fixed format: trimming the result  *)
(* of a trim again, in the same format, returns that result; also for an   *)
(* output that was above the ceiling.                                      *)
(***************************************************************************)
C16_TrimIdempotent ==
  (trim # NoTrim /\ Len(trim.results) >= 2)
  => trim.results[2] = trim.results[1]

C16_Witness ==
  /\ trim # NoTrim /\ Len(trim.results) >= 2
  /\ StrLen(trim.output) > Ceiling(trim.outputFormat)
  /\ trim.results[1] # trim.output
  /\ trim.results[2] = trim.results[1]

(***************************************************************************)
(* C17.  An output longer than the ceiling of its format is returned as    *)
(* its first (ceiling - 500) characters followed by a truncation marker.   *)
(* As claimed: in every format, text included, the marker names the        *)
(* format.                                                                 *)
(***************************************************************************)
Trimmed == trim # NoTrim /\ Len(trim.results) >= 1

OverCeiling == StrLen(trim.output) > Ceiling(trim.outputFormat)

\* the result is the first (ceiling - 500) characters and a non-empty rest
CutAndMarked ==
  /\ Substring(trim.results[1], Ceiling(trim.outputFormat) - 500) =
        Substring(trim.output, Ceiling(trim.outputFormat) - 500)
  /\ StrLen(trim.results[1]) > Ceiling(trim.outputFormat) - 500

\* what follows the first (ceiling - 500) characters
MarkerOf(result) ==
  SubSeq(result, Len(Substring(trim.output,
                               Ceiling(trim.outputFormat) - 500)) + 1,
         Len(result))

NamesFormat(marker) ==
  \E i \in 1..Len(marker) : marker[i].text = trim.outputFormat

C17_MarkerNamesFormat ==
  (Trimmed /\ OverCeiling)
  => (CutAndMarked /\ NamesFormat(MarkerOf(trim.results[1])))

(***************************************************************************)
(* C17, amended.  An output longer than the ceiling of its format is       *)
(* returned as its first (ceiling - 500) characters followed by the        *)
(* truncation marker; the marker names the format for json and fields, and *)
(* is the plain marker, without a format, for text.                        *)
(***************************************************************************)
C17_MarkerNamesFormatUnlessText ==
  (Trimmed /\ OverCeiling)
  => /\ CutAndMarked
     /\ MarkerOf(trim.results[1])[1].text =
           "\n\n... [Output truncated due to size"
     /\ trim.outputFormat # "text" => NamesFormat(MarkerOf(trim.results[1]))
     /\ trim.outputFormat = "text" =>
           MarkerOf(trim.results[1]) =
              Literal("\n\n... [Output truncated due to size")
              \o Literal("] ...")

C17_Witness ==
  /\ Trimmed
  /\ trim.outputFormat = "json"
  /\ StrLen(trim.output) = 500001
  /\ StrLen(Substring(trim.results[1], 499500)) = 499500
  /\ NamesFormat(MarkerOf(trim.results[1]))

(***************************************************************************)
(* manage_config and the Configuration Store.  loadConfigFile and          *)
(* saveConfigFile await fs.readFile and fs.writeFile, so a save or delete  *)
(* is read, modify in memory, write, with other invocations able to run    *)
(* at each await.  What is written is JSON.stringify of the document: its  *)
(* own properties.                                                         *)
(***************************************************************************)
NoConfigArg == [given |-> FALSE]

ManageArgSet ==
  { [action |-> "save", name |-> "x", config |-> [timeout |-> 30]],
    [action |-> "save", name |-> "y",
     config |-> [interface |-> "en0", displayFilter |-> "tcp"]],
    [action |-> "save", name |-> "__proto__", config |-> [timeout |-> 30]],
    [action |-> "save", name |-> Undefined, config |-> [timeout |-> 30]],
    [action |-> "save", name |-> "x", config |-> NoConfigArg],
    [action |-> "load", name |-> "x", config |-> NoConfigArg],
    [action |-> "load", name |-> Undefined, config |-> NoConfigArg],
    [action |-> "delete", name |-> "x", config |-> NoConfigArg],
    [action |-> "delete", name |-> "constructor", config |-> NoConfigArg],
    [action |-> "delete", name |-> "", config |-> NoConfigArg],
    [action |-> "list", name |-> Undefined, config |-> NoConfigArg] }

\* a stored document with two configurations
StoredFileXY ==
  [exists |-> TRUE,
   configs |-> ("x" :> [name |-> "x", interface |-> "lo0", timeout |-> 5]
                @@ "y" :> [name |-> "y", outputFormat |-> "json"])]

\* const filterConfig: FilterConfig = { name, ...config }
FilterConfigOf(name, config) ==
  [f \in {"name"} \cup DOMAIN config |->
     IF f \in DOMAIN config THEN config[f] ELSE name]

\* configFile.configs[filterConfig.name] = filterConfig: an assignment to
\* "__proto__" replaces the prototype of configs and adds no own property
SaveFilterConfig(doc, filterConfig) ==
  IF filterConfig.name = "__proto__" THEN doc
  ELSE [doc EXCEPT !.configs = MapSet(@, filterConfig.name, filterConfig)]

\* delete configFile.configs[name]: removes an own property, if any
DeleteFilterConfig(doc, name) ==
  [doc EXCEPT !.configs = MapDelete(@, name)]

\* Object.values(configFile.configs)
ListFilterConfigs(doc) == {doc.configs[n] : n \in DOMAIN doc.configs}

ConfigRequest(pc, args, doc) ==
  [kind |-> "config", pc |-> pc, args |-> args, doc |-> doc]

ConfigReturned(req, result, config) ==
  [kind |-> "config", result |-> result, args |-> req.args,
   config |-> config, session |-> 0, removedAt |-> 0]

InitConfig ==
  /\ InitSessions
  /\ configFile \in {NoFile, StoredFile, StoredFileXY}
  /\ resolve = NoResolve
  /\ trim = NoTrim

\* the tool is invoked: the handler runs to its first return or to the
\* fs.readFile of loadConfigFile
ManageConfigCall(args) ==
  /\ nreq < MaxReq
  /\ nreq' = nreq + 1
  /\ IF \/ ~TruthyStr(args.name) /\ args.action # "list"
        \/ args.action = "save" /\ args.config = NoConfigArg
     THEN /\ last' = ConfigReturned(ConfigRequest("none", args, NoFile),
                                    "Rejected", NoConfig)
          /\ UNCHANGED reqs
     ELSE /\ reqs' = reqs (+) SetToBag({ConfigRequest("readFile", args,
                                                      NoFile)})
          /\ UNCHANGED last
  /\ UNCHANGED <<activeSessions, sessions, procs, files, configFile, resolve,
                 trim>>

\* loadConfigFile has returned doc: the rest of the operation up to its
\* return or to the fs.writeFile of saveConfigFile
ManageConfigBody(req, doc) ==
  LET name == req.args.name
      loaded == LoadFilterConfig(doc, name)
  IN  IF req.args.action = "save"
      THEN /\ Suspend(req, [req EXCEPT
                 !.pc = "writeFile",
                 !.doc = SaveFilterConfig(doc, FilterConfigOf(name,
                                                              req.args.config))])
           /\ UNCHANGED last
      ELSE IF req.args.action = "load"
      THEN /\ reqs' = reqs (-) SetToBag({req})
           /\ last' = IF IsNull(loaded)
                      THEN ConfigReturned(req, "ConfigNotFound", NoConfig)
                      ELSE ConfigReturned(req, "Loaded", loaded)
      ELSE IF req.args.action = "list"
      THEN /\ reqs' = reqs (-) SetToBag({req})
           /\ last' = ConfigReturned(req, "Listed", ListFilterConfigs(doc))
      ELSE IF ~IsNull(loaded)
      THEN /\ Suspend(req, [req EXCEPT !.pc = "writeFile",
                                       !.doc = DeleteFilterConfig(doc, name)])
           /\ UNCHANGED last
      ELSE /\ reqs' = reqs (-) SetToBag({req})
           /\ last' = ConfigReturned(req, "ConfigNotFound", NoConfig)

\* fs.readFile returns the document, or fails and the default document is
\* being written
ConfigReadFileDone(req) ==
  /\ req \in InFlight("config", "readFile")
  /\ IF configFile.exists
     THEN ManageConfigBody(req, configFile)
     ELSE Suspend(req, [req EXCEPT !.pc = "writeDefault"]) /\ UNCHANGED last
  /\ UNCHANGED <<activeSessions, sessions, procs, files, configFile, nreq,
                 resolve, trim>>

\* the default document has been written
ConfigWriteDefaultDone(req) ==
  /\ req \in InFlight("config", "writeDefault")
  /\ configFile' = DefaultConfigFile
  /\ ManageConfigBody(req, DefaultConfigFile)
  /\ UNCHANGED <<activeSessions, sessions, procs, files, nreq, resolve, trim>>

\* saveConfigFile(configFile) of a save or delete is done; the result
ConfigWriteFileDone(req) ==
  /\ req \in InFlight("config", "writeFile")
  /\ configFile' = req.doc
  /\ reqs' = reqs (-) SetToBag({req})
  /\ last' = ConfigReturned(req, IF req.args.action = "save" THEN "Saved"
                                 ELSE "Deleted", NoConfig)
  /\ UNCHANGED <<activeSessions, sessions, procs, files, nreq, resolve, trim>>

NextConfig ==
  \/ \E args \in ManageArgSet : ManageConfigCall(args)
  \/ \E req \in BagToSet(reqs) : ConfigReadFileDone(req)
  \/ \E req \in BagToSet(reqs) : ConfigWriteDefaultDone(req)
  \/ \E req \in BagToSet(reqs) : ConfigWriteFileDone(req)

SpecConfig == InitConfig /\ [][NextConfig]_vars

(***************************************************************************)
(* C18.  Round trip of the Configuration Store.  When a save of c under x  *)
(* returns, a load of x returns exactly the name and the fields of c; when *)
(* a delete of x returns, a load of x reports configuration-not-found; a   *)
(* save or delete of x leaves what is stored under every other name as it  *)
(* was, and nothing but a save or delete of x changes what a load of x     *)
(* returns.                                                                *)
(***************************************************************************)
ConfigNames == {"x", "y", "c1", "__proto__", "constructor"}

ConfigReturns(req) ==
  /\ req.kind = "config"
  /\ CopiesIn(req, reqs') < CopiesIn(req, reqs)
  /\ BagCardinality(reqs') < BagCardinality(reqs)

\* what a load of name returns from the stored document
LoadOf(file, name) == LoadFilterConfig(file, name)

C18_ConfigRoundTrip ==
  [][/\ \A req \in BagToSet(reqs) :
           (ConfigReturns(req) /\ last'.result \in {"Saved", "Deleted"})
           => /\ last'.result = "Saved" =>
                    LoadOf(configFile', req.args.name) =
                       FilterConfigOf(req.args.name, req.args.config)
              /\ last'.result = "Deleted" =>
                    IsNull(LoadOf(configFile', req.args.name))
              /\ \A other \in ConfigNames \ {req.args.name} :
                    LoadOf(configFile', other) = LoadOf(configFile, other)
     /\ \A name \in ConfigNames :
           LoadOf(configFile', name) # LoadOf(configFile, name)
           => \E req \in BagToSet(reqs) :
                 /\ ConfigReturns(req) /\ req.args.name = name
                 /\ last'.result \in {"Saved", "Deleted"}
    ]_vars

(***************************************************************************)
(* C20.  manage_config rejects a save without name or without config and a *)
(* load or delete without name: such a request returns an error at once,   *)
(* and only a request with the name (and, for save, the config) it needs   *)
(* goes on.  A rejected request, and a delete of a name that is not        *)
(* stored, leave the stored configurations as they were.                   *)
(***************************************************************************)
ConfigCallStep == nreq' = nreq + 1

\* the configurations in the store
StoredConfigs(file) == LoadConfigFile(file).configs

Acceptable(args) ==
  /\ args.action \in {"save", "load", "delete"} => args.name # Undefined
  /\ args.action = "save" => args.config # NoConfigArg

C20_RejectsIncomplete ==
  [][/\ ConfigCallStep =>
           IF BagCardinality(reqs') > BagCardinality(reqs)
           THEN \A req \in BagToSet(reqs') :
                   CopiesIn(req, reqs') > CopiesIn(req, reqs)
                   => Acceptable(req.args)
           ELSE /\ last'.result = "Rejected"
                /\ StoredConfigs(configFile') = StoredConfigs(configFile)
     /\ \A req \in BagToSet(reqs) :
           (/\ req.kind = "config" /\ req.args.action = "delete"
            /\ CopiesIn(req, reqs') < CopiesIn(req, reqs)
            /\ req.args.name \notin DOMAIN StoredConfigs(configFile))
           => StoredConfigs(configFile') = StoredConfigs(configFile)
    ]_vars

(***************************************************************************)
(* analyze_pcap_file, next to the capture sessions.  The file named by     *)
(* filePath is the caller's: whether it is there, and whether tshark can   *)
(* read it, are inputs of the steps.                                       *)
(***************************************************************************)
AnalyzeRequest(pc, args, params) ==
  [kind |-> "analyze", pc |-> pc, args |-> args, session |-> 0,
   params |-> params, removedAt |-> 0]

\* the tool is invoked: the handler runs to the await of loadFilterConfig,
\* or without configName to the await of fs.access(filePath)
AnalyzeCall(args) ==
  /\ nreq < MaxReq
  /\ nreq' = nreq + 1
  /\ reqs' = reqs (+) SetToBag({
        IF TruthyStr(args.configName)
        THEN AnalyzeRequest("loadConfig", args, NoParams)
        ELSE AnalyzeRequest("access", args, AnalyzeParams(args, NoConfig))})
  /\ UNCHANGED <<activeSessions, sessions, procs, files, configFile, last,
                 resolve, trim>>

\* loadFilterConfig(configName) returns (one step, as in StartConfigLoaded)
AnalyzeConfigLoaded(req) ==
  /\ req \in InFlight("analyze", "loadConfig")
  /\ configFile' = LoadConfigFile(configFile)
  /\ LET savedConfig == LoadFilterConfig(configFile, req.args.configName)
     IN  IF IsNull(savedConfig)
         THEN Return(req, "ConfigNotFound")
         ELSE /\ Suspend(req, [req EXCEPT
                    !.pc = "access",
                    !.params = AnalyzeParams(req.args, savedConfig)])
              /\ UNCHANGED last
  /\ UNCHANGED <<activeSessions, sessions, procs, files, nreq, resolve, trim>>

\* fs.access(filePath) returns, or throws (the handler's catch returns the
\* error)
AnalyzeAccessDone(req, exists) ==
  /\ req \in InFlight("analyze", "access")
  /\ IF exists
     THEN Suspend(req, [req EXCEPT !.pc = "analyze"]) /\ UNCHANGED last
     ELSE Return(req, "Error")
  /\ UNCHANGED <<activeSessions, sessions, procs, files, configFile, nreq,
                 resolve, trim>>

\* the success result of analyze: the trimmed, processed output
Analyzed(req, stdout) ==
  [kind |-> "analyze", result |-> "Analyzed", args |-> req.args,
   session |-> 0, removedAt |-> 0, outputFormat |-> req.params.outputFormat,
   stdout |-> stdout,
   output |-> TrimOutput(ProcessTsharkOutput(stdout, req.params.outputFormat),
                         req.params.outputFormat)]

\* an analysis that, as stop does, takes the sessions out of the registry
AnalyzeDoneAsStop(req, ok, stdout) ==
  /\ req \in InFlight("analyze", "analyze")
  /\ reqs' = reqs (-) SetToBag({req})
  /\ last' = IF ok THEN Analyzed(req, stdout) ELSE Returned(req, "Error")
  /\ activeSessions' = [k \in {} |-> 0]
  /\ UNCHANGED <<sessions, procs, files, configFile, nreq, resolve, trim>>

\* analyzePcap returns the processed output of tshark, or throws (tshark not
\* found or failed); the output is trimmed and returned
AnalyzeDone(req, ok, stdout) ==
  /\ req \in InFlight("analyze", "analyze")
  /\ reqs' = reqs (-) SetToBag({req})
  /\ last' = IF ok THEN Analyzed(req, stdout) ELSE Returned(req, "Error")
  /\ UNCHANGED <<activeSessions, sessions, procs, files, configFile, nreq,
                 resolve, trim>>

NextAnalyze ==
  \/ Next
  \/ \E args \in AnalyzeArgSet : AnalyzeCall(args)
  \/ \E req \in BagToSet(reqs) : AnalyzeConfigLoaded(req)
  \/ \E req \in BagToSet(reqs), exists \in BOOLEAN :
        AnalyzeAccessDone(req, exists)
  \/ \E req \in BagToSet(reqs), ok \in BOOLEAN, stdout \in StdoutSet :
        AnalyzeDone(req, ok, stdout)

SpecAnalyze == Init /\ [][NextAnalyze]_vars

(***************************************************************************)
(* C19.  analyze_pcap_file never touches the Session Registry: in every    *)
(* step of an analyze request, whatever its outcome (analysed,             *)
(* configuration not found, file missing, tshark failed), the registered   *)
(* ids, every field of every session and every capture process (no signal) *)
(* are as before.                                                          *)
(***************************************************************************)
AnalyzeStep ==
  \E req \in BagToSet(reqs) \cup BagToSet(reqs') :
     req.kind = "analyze" /\ CopiesIn(req, reqs') # CopiesIn(req, reqs)

C19_AnalyzeLeavesRegistry ==
  [][AnalyzeStep => UNCHANGED <<activeSessions, sessions, procs>>]_vars

C19_Witness ==
  /\ last.kind = "analyze" /\ last.result = "Analyzed"
  /\ MapHas(activeSessions, "a")
  /\ sessions[activeSessions["a"]].status = "running"
  /\ procs[activeSessions["a"]].handle /\ ~procs[activeSessions["a"]].killed

(***************************************************************************)
(* C21.  Every failure of a start, stop or analyze request is returned as  *)
(* a result with isError: a start whose id is registered, or whose spawn   *)
(* fails; a request whose named configuration is not found; a stop of an   *)
(* id that is not registered, or that finds no capture file; an analyze    *)
(* that ends at the file check.  (No step of a handler ends without a      *)
(* result: every return of the model is a result.)                         *)
(***************************************************************************)
Leaves(req) ==
  /\ CopiesIn(req, reqs') < CopiesIn(req, reqs)
  /\ BagCardinality(reqs') < BagCardinality(reqs)

SpawnFails == Len(procs') = Len(procs) + 1 /\ ~procs'[Len(procs')].handle

C21_FailuresAreErrors ==
  [][/\ SpawnFails => IsError(last'.result)
     /\ \A req \in BagToSet(reqs) :
           Leaves(req) =>
             /\ (/\ req.pc = "loadConfig"
                 /\ IsNull(LoadFilterConfig(configFile, req.args.configName)))
                => IsError(last'.result)
             /\ (/\ req.kind = "start"
                 /\ MapHas(activeSessions,
                           SessionIdOf(req.args.sessionName,
                                       Len(sessions) + 1)))
                => IsError(last'.result)
             /\ (/\ req.kind = "stop" /\ req.pc = "access"
                 /\ ~MapHas(files, sessions[req.session].tempFile))
                => IsError(last'.result)
             /\ (req.kind = "analyze" /\ req.pc = "access")
                => IsError(last'.result)
     /\ (nreq' = nreq + 1 /\ last' # last) => IsError(last'.result)
    ]_vars

(***************************************************************************)
(* C22.  An analyze request whose analysis run succeeds returns a success  *)
(* result, also when tshark printed nothing: the results section is then   *)
(* empty.  In the json format an output that does not parse as JSON is     *)
(* returned as tshark printed it.                                          *)
(***************************************************************************)
C22_EmptyAndUnparsedOutput ==
  (last.kind = "analyze" /\ "stdout" \in DOMAIN last)
  => /\ ~IsError(last.result)
     /\ last.stdout = <<>> => last.output = <<>>
     /\ (last.outputFormat = "json" /\ ~ParsesAsJson(last.stdout))
        => last.output = last.stdout

C22_Witness ==
  /\ last.kind = "analyze" /\ last.result = "Analyzed"
  /\ last.outputFormat = "json"
  /\ last.stdout = <<>> /\ last.output = <<>>

(***************************************************************************)
(* C23.  The decision of stop, taken after the lookup and the resolution   *)
(* of the configuration.  A stop sends SIGTERM and starts the grace wait   *)
(* only when, at that moment, the session has a process that has not been  *)
(* signalled and its status is running; no process is signalled in any     *)
(* other step.  Otherwise (status completed or error, process none, also   *)
(* when that was observed after the lookup) the stop signals nothing,      *)
(* removes the id and starts the file check in the same step.              *)
(***************************************************************************)
Enters(req, pc) ==
  /\ req.kind = "stop" /\ req.pc = pc
  /\ CopiesIn(req, reqs') > CopiesIn(req, reqs)

FromGrace ==
  \E req \in BagToSet(reqs) :
     req.pc = "grace" /\ CopiesIn(req, reqs') < CopiesIn(req, reqs)

C23_StopDecision ==
  [][/\ \A req \in BagToSet(reqs') :
           /\ Enters(req, "grace") =>
                 /\ sessions[req.session].process # NoProcess
                 /\ ~procs[sessions[req.session].process].killed
                 /\ sessions[req.session].status = "running"
           /\ (Enters(req, "access") /\ ~FromGrace) =>
                 /\ \/ sessions[req.session].process = NoProcess
                    \/ procs[sessions[req.session].process].killed
                    \/ sessions[req.session].status # "running"
                 /\ procs' = procs
                 /\ ~MapHas(activeSessions', req.args.sessionId)
     /\ \A p \in 1..Len(procs) :
           (procs'[p].killed # procs[p].killed
            \/ (procs'[p].errored /\ ~procs[p].errored))
           => \E req \in BagToSet(reqs') :
                 Enters(req, "grace") /\ sessions[req.session].process = p
    ]_vars

C23_Witness ==
  \E req \in BagToSet(reqs) :
     /\ req.kind = "stop" /\ req.pc = "access"
     /\ req.args.configName = "c1"
     /\ sessions[req.session].status = "completed"
     /\ sessions[req.session].process = NoProcess
     /\ ~procs[req.session].killed

(***************************************************************************)
(* C24.  A stop removes the id before the file check and the analysis, so  *)
(* the id can be used again at once.  While a stop is past the removal     *)
(* (checking, analysing or deleting the file), a start with the same id    *)
(* is rejected as duplicate only if a later start has registered the id    *)
(* again in the meantime; if the id is free, the start is not rejected as  *)
(* duplicate and, unless the spawn throws, registers its new session.      *)
(***************************************************************************)
StartChecks(req, stop) ==
  /\ StartReturns(req)
  /\ stop.args.sessionId = SessionIdOf(req.args.sessionName, Len(sessions) + 1)
  /\ last'.result # "ConfigNotFound"

C24_IdReusableDuringStop ==
  [][\A req \in BagToSet(reqs) : \A stop \in StopsPastRemoval :
        StartChecks(req, stop) =>
          IF last'.result = "Duplicate"
          THEN /\ MapHas(activeSessions, stop.args.sessionId)
               /\ activeSessions[stop.args.sessionId] > stop.removedAt
          ELSE /\ last'.result \in {"Started", "Error"}
               /\ last'.result = "Started" =>
                     /\ activeSessions'[stop.args.sessionId] = Len(sessions')
                     /\ Len(sessions') = Len(sessions) + 1
     ]_vars

C24_Witness ==
  /\ last.kind = "start" /\ last.result = "Started"
  /\ \E stop \in StopsPastRemoval :
        /\ stop.pc \in {"analyze", "unlink"}
        /\ MapGet(activeSessions, stop.args.sessionId) = last.session
        /\ stop.session < last.session

(***************************************************************************)
(* C25.  A temp file is deleted only in the step in which a stop whose     *)
(* analysis of that file has succeeded finishes its fs.unlink, and that    *)
(* stop returns its results whether or not the deletion worked.  A stop    *)
(* that finds the file missing or unreadable, or whose analysis fails,     *)
(* returns the 'no results' error and leaves the files as they are.        *)
(***************************************************************************)
C25_DeleteOnlyAfterAnalysis ==
  [][/\ \A f \in DOMAIN files :
           ~MapHas(files', f) =>
              \E req \in InFlight("stop", "unlink") :
                 /\ sessions[req.session].tempFile = f
                 /\ StopReturns(req)
                 /\ last'.result = "Completed"
     /\ \A req \in BagToSet(reqs) :
           /\ (StopReturns(req) /\ req.pc \in {"access", "analyze"}) =>
                 /\ last'.result = "NoResults"
                 /\ files' = files
           /\ (StopLeaves(req) /\ req.pc = "unlink") =>
                 /\ StopReturns(req)
                 /\ last' = Returned(req, "Completed")
                 /\ ~IsError(last'.result)
    ]_vars

\* a stop whose analysis failed has returned the error and the file is
\* still there
C25_Witness ==
  /\ last.kind = "stop" /\ last.result = "NoResults"
  /\ MapHas(files, sessions[last.session].tempFile)

\* a stop whose deletion failed has returned its results
C25_UnlinkFailed ==
  /\ last.kind = "stop" /\ last.result = "Completed"
  /\ MapHas(files, sessions[last.session].tempFile)
  /\ ~procs[last.session].handle

(***************************************************************************)
(* C26.  For every session, endTime is written at most once and never      *)
(* reset, and exitCode is written at most once and only by an exit         *)
(* observer, in whatever order the exit and error notifications arrive:    *)
(* no observer writes a session whose endTime is already set, and a set    *)
(* endTime or exitCode keeps its value.                                    *)
(***************************************************************************)
\* an observer of process p runs in this step and writes session object s
ObserverWrites(p, s) ==
  /\ ObserverStep(p)
  /\ MapGet(activeSessions, procs[p].sessionId) = s

C26_EndTimeExitCodeOnce ==
  [][\A s \in 1..Len(sessions) :
        /\ sessions[s].endTime # UndefinedNum =>
              /\ sessions'[s].endTime = sessions[s].endTime
              /\ \A p \in 1..Len(procs) : ~ObserverWrites(p, s)
        /\ sessions[s].exitCode # UndefinedNum =>
              sessions'[s].exitCode = sessions[s].exitCode
        /\ sessions'[s].exitCode # sessions[s].exitCode =>
              \E p \in 1..Len(procs) : ExitStep(p)
    ]_vars

(***************************************************************************)
(* C27.  The capture parameters of a session (id, interface,               *)
(* captureFilter, timeout, maxPackets, startTime, tempFile) never change   *)
(* once the session is created: no step (observer, stop, other start)      *)
(* changes them in any session object, and what a stop resolves from its   *)
(* arguments and the named configuration is its displayFilter,             *)
(* outputFormat and customFields only.                                     *)
(***************************************************************************)
C27_CaptureParamsFixed ==
  [][/\ Len(sessions') >= Len(sessions)
     /\ \A s \in 1..Len(sessions) :
           /\ CaptureParams(sessions'[s]) = CaptureParams(sessions[s])
           /\ sessions'[s].startTime = sessions[s].startTime
     /\ \A req \in BagToSet(reqs') :
           (req.kind = "stop" /\ req.pc # "loadConfig")
           => DOMAIN req.params =
                 {"displayFilter", "outputFormat", "customFields"}
    ]_vars

\* a stop naming a configuration with another interface and timeout has
\* resolved its parameters, and an observer has ended the session
C27_Witness ==
  \E req \in StopsPastRemoval :
     /\ req.args.configName = "c1"
     /\ req.params.outputFormat = "json"
     /\ LoadFilterConfig(configFile, "c1").interface = "en0"
     /\ sessions[req.session].interface = "lo0"
     /\ sessions[req.session].timeout = 60
     /\ sessions[req.session].status = "error"

(***************************************************************************)
(* The awaits of a stop invocation all come back: the configuration read,  *)
(* the two timers, fs.access, the analysis run and fs.unlink.  Nothing is  *)
(* assumed of the capture process: it may never exit.                      *)
(***************************************************************************)
StopProgress ==
  /\ WF_vars(\E req \in BagToSet(reqs), kill \in KillOutcomes :
                StopConfigLoaded(req, kill))
  /\ WF_vars(\E req \in BagToSet(reqs) : StopGraceDone(req))
  /\ WF_vars(\E req \in BagToSet(reqs) : StopAccessDone(req))
  /\ WF_vars(\E req \in BagToSet(reqs), ok \in BOOLEAN :
                StopAnalyzeDone(req, ok))
  /\ WF_vars(\E req \in BagToSet(reqs), unlinked \in BOOLEAN :
                StopUnlinkDone(req, unlinked))

SpecFair == Init /\ [][Next]_vars /\ StopProgress

(***************************************************************************)
(* C28.  Every stop invocation eventually returns, whether or not the      *)
(* capture process ever exits: whenever stop invocations are in flight,    *)
(* a state follows in which none is.                                       *)
(***************************************************************************)
StopsInFlight == {req \in BagToSet(reqs) : req.kind = "stop"}

C28_StopReturns == (StopsInFlight # {}) ~> (StopsInFlight = {})

\* a stop has returned although the signalled process has not exited
C28_Witness ==
  /\ StopsInFlight = {}
  /\ LastStopProceeded
  /\ procs[last.session].handle /\ procs[last.session].killed

(***************************************************************************)
(* C29.  Writes of the configuration store are atomic with respect to each *)
(* other: no completed save is lost and no completed delete is undone by   *)
(* an overlapping request on another name.  The step in which a save or a  *)
(* delete writes the document changes the entry of its own name only:      *)
(* every other stored configuration is there before and after, unchanged.  *)
(***************************************************************************)
C29_WritesAreAtomic ==
  [][\A req \in InFlight("config", "writeFile") :
        ConfigReturns(req) =>
           \A k \in (DOMAIN StoredConfigs(configFile)
                      \cup DOMAIN StoredConfigs(configFile'))
                     \ {req.args.name} :
              /\ k \in DOMAIN StoredConfigs(configFile)
              /\ k \in DOMAIN StoredConfigs(configFile')
              /\ StoredConfigs(configFile')[k] = StoredConfigs(configFile)[k]
    ]_vars

(***************************************************************************)
(* The store with reads that fail on a file that is there: fs.readFile     *)
(* throws (EACCES, EMFILE, ...) or JSON.parse throws on its content, and   *)
(* the catch of loadConfigFile starts writing the default document.        *)
(***************************************************************************)
ConfigReadFileFails(req) ==
  /\ req \in InFlight("config", "readFile")
  /\ configFile.exists
  /\ Suspend(req, [req EXCEPT !.pc = "writeDefault"])
  /\ UNCHANGED <<activeSessions, sessions, procs, files, configFile, nreq,
                 last, resolve, trim>>

NextConfigRead ==
  \/ NextConfig
  \/ \E req \in BagToSet(reqs) : ConfigReadFileFails(req)

SpecConfigRead == InitConfig /\ [][NextConfigRead]_vars

(***************************************************************************)
(* C30.  Reading the configuration store writes the default empty document *)
(* only when the file does not exist.  A request that is reading (from its *)
(* fs.readFile to the end of loadConfigFile) leaves an existing file as it *)
(* is, also when the read fails or the content does not parse; it changes  *)
(* the file only from absent to the default document.                      *)
(***************************************************************************)
Reads(req) ==
  /\ req.kind = "config"
  /\ req.pc \in {"readFile", "writeDefault"}
  /\ CopiesIn(req, reqs') < CopiesIn(req, reqs)

C30_ReadKeepsStore ==
  [][\A req \in BagToSet(reqs) :
        Reads(req) =>
           IF configFile.exists
           THEN configFile' = configFile
           ELSE configFile' \in {configFile, DefaultConfigFile}
    ]_vars

(***************************************************************************)
(* C31.  The duplicate check, the spawn and the registration of a start    *)
(* are one step, never interleaved with those of another start.  Of two    *)
(* starts with the same name that overlap, the one that reaches the check  *)
(* first with the id free succeeds, spawning one process and registering   *)
(* its one session in that step, and from then on the other finds the id   *)
(* registered: a start succeeds exactly when the id is free at its check,  *)
(* and is answered duplicate exactly when it is not.                       *)
(***************************************************************************)
\* another start with the same name is in flight with req
Overlaps(req) ==
  \/ CopiesIn(req, reqs) > 1
  \/ \E other \in BagToSet(reqs) :
        /\ other # req /\ other.kind = "start"
        /\ other.args.sessionName = req.args.sessionName

C31_OverlappingStarts ==
  [][/\ Len(sessions') \in {Len(sessions), Len(sessions) + 1}
     /\ Len(procs') - Len(procs) = Len(sessions') - Len(sessions)
     /\ \A req \in BagToSet(reqs) :
           (/\ StartReturns(req) /\ Overlaps(req)
            /\ TruthyStr(req.args.sessionName)
            /\ last'.result \in {"Started", "Duplicate"})
           => LET sessionId == req.args.sessionName
                  n == Len(sessions')
              IN  IF MapHas(activeSessions, sessionId)
                  THEN /\ last'.result = "Duplicate"
                       /\ UNCHANGED <<activeSessions, sessions, procs>>
                  ELSE /\ last'.result = "Started"
                       /\ n = Len(sessions) + 1
                       /\ activeSessions'[sessionId] = n
                       /\ sessions'[n].id = sessionId
                       /\ procs'[n].sessionId = sessionId
    ]_vars

\* one of two overlapping starts named "a" has succeeded; the other is
\* still in flight and the id is registered
C31_Witness ==
  /\ last.kind = "start" /\ last.result = "Started"
  /\ last.args.sessionName = "a"
  /\ MapGet(activeSessions, "a") = last.session
  /\ \E req \in BagToSet(reqs) :
        req.kind = "start" /\ req.args.sessionName = "a"
  /\ Len(procs) = 1

(***************************************************************************)
(* C32.  In every session object, registered or not, the status is running *)
(* exactly when the process field is not null; the two fields change only  *)
(* in a step in which an observer runs, and then both at once.             *)
(***************************************************************************)
RunningIffHandle(session) ==
  (session.status = "running") <=> (session.process # NoProcess)

C32_RunningIffHandle ==
  [][\A s \in 1..Len(sessions') :
        /\ RunningIffHandle(sessions'[s])
        /\ s <= Len(sessions) =>
              /\ (sessions'[s].status # sessions[s].status
                  \/ sessions'[s].process # sessions[s].process)
                 => /\ \E p \in 1..Len(procs) : ObserverWrites(p, s)
                    /\ sessions[s].status = "running"
                       => /\ sessions'[s].status # "running"
                          /\ sessions'[s].process = NoProcess
    ]_vars

C32_Witness ==
  \E s1, s2 \in 1..Len(sessions) :
     /\ Registered(s1) /\ Registered(s2)
     /\ sessions[s1].status = "completed" /\ sessions[s1].process = NoProcess
     /\ sessions[s2].status = "running" /\ sessions[s2].process = s2

(***************************************************************************)
(* C33.  In every session object, status completed implies that exitCode   *)
(* is set and is 0 and that endTime is set; a session whose exitCode is    *)
(* set and not 0 does not have status completed.                           *)
(***************************************************************************)
C33_CompletedMeansExitZero ==
  \A s \in 1..Len(sessions) :
     /\ sessions[s].status = "completed" =>
           /\ sessions[s].exitCode = 0
           /\ sessions[s].endTime # UndefinedNum
     /\ sessions[s].exitCode \notin {UndefinedNum, 0} =>
           sessions[s].status # "completed"

C33_Witness ==
  \E s1, s2 \in 1..Len(sessions) :
     /\ Registered(s1) /\ Registered(s2)
     /\ sessions[s1].status = "completed" /\ sessions[s1].exitCode = 0
     /\ sessions[s2].status = "error" /\ sessions[s2].exitCode = 1

(***************************************************************************)
(* C34.  A stop that names a configuration which is not stored fails with  *)
(* the configuration-not-found error and leaves everything as it was: the  *)
(* registry, every session (so the status), every process (no signal) and  *)
(* the temp files are unchanged in the step in which the configuration     *)
(* read comes back, and the stop returns in that step.                     *)
(***************************************************************************)
C34_StopUnknownConfig ==
  [][\A req \in BagToSet(reqs) :
        (/\ StopLeaves(req)
         /\ req.pc = "loadConfig"
         /\ ~Stored(req.args.configName))
        => /\ StopReturns(req)
           /\ last' = Returned(req, "ConfigNotFound")
           /\ UNCHANGED <<activeSessions, sessions, procs, files>>
    ]_vars

(***************************************************************************)
(* C35.  When the process of a registered session ends without an exit     *)
(* code (a signal ended it, as after the SIGTERM of a stop), the exit      *)
(* observer sets the session's status to error, clears its process field,  *)
(* sets endTime and leaves exitCode as it was; nothing else of the session *)
(* changes.                                                                *)
(***************************************************************************)
C35_SignalExit ==
  [][\A p \in 1..Len(procs) :
        (ProcExit(p, NullCode) /\ Registered(p))
        => /\ sessions'[p].status = "error"
           /\ sessions'[p].process = NoProcess
           /\ sessions'[p].endTime # UndefinedNum
           /\ sessions'[p].exitCode = sessions[p].exitCode
           /\ CaptureParams(sessions'[p]) = CaptureParams(sessions[p])
    ]_vars

\* the signalled process of a session still registered (its stop is in the
\* grace wait) has exited without a code
C35_Witness ==
  \E req \in InFlight("stop", "grace") :
     /\ Registered(req.session)
     /\ procs[req.session].killed /\ ~procs[req.session].handle
     /\ sessions[req.session].status = "error"
     /\ sessions[req.session].process = NoProcess
     /\ sessions[req.session].endTime # UndefinedNum
     /\ sessions[req.session].exitCode = UndefinedNum

(***************************************************************************)
(* C36.  For every output and format, the result of trimOutput is no       *)
(* longer than the ceiling of the format (json 500000, fields 800000,      *)
(* text 720000): an output over the ceiling comes back as ceiling - 500    *)
(* characters plus the marker, and the marker is shorter than 500.         *)
(***************************************************************************)
C36_ResultWithinCeiling ==
  \A i \in 1..Len(trim.results) :
     /\ StrLen(trim.results[i]) <= Ceiling(trim.outputFormat)
     /\ StrLen(trim.output) > Ceiling(trim.outputFormat) =>
           /\ StrLen(trim.results[i]) =
                 Ceiling(trim.outputFormat) - 500
                 + StrLen(TruncationMarker(trim.outputFormat))
           /\ StrLen(TruncationMarker(trim.outputFormat)) < 500

C36_Witness ==
  /\ Len(trim.results) >= 1
  /\ trim.outputFormat = "fields"
  /\ StrLen(trim.output) = 2 * Ceiling("fields")
  /\ StrLen(trim.results[1]) > Ceiling("fields") - 500
  /\ StrLen(trim.results[1]) <= Ceiling("fields")

====
